---------------------------- MODULE Spec2Model ----------------------------
(***************************************************************************)
(* A model of reporter/base.py (django-reporter): the BaseReport class.    *)
(*                                                                         *)
(* One report instance is followed from the call of its constructor        *)
(* through run_report and, when sending is enabled, send_results.  The     *)
(* statements of run_report and send_results are separate steps, because   *)
(* each of them can raise and leave the remaining ones unexecuted.         *)
(*                                                                         *)
(* Text (file contents, the e-mail body) is a sequence of one-character    *)
(* strings.  A date is a tuple <<year, month, day>>.  An optional value    *)
(* (an argument that may be None) is a record [some, val].                 *)
(***************************************************************************)
EXTENDS Integers, Sequences, FiniteSets, TLC

VARIABLES
    pc,            \* position in __init__ / run_report / send_results
    err,           \* the exception that ended the call, or "none"
    overridden,    \* the hooks the report subclass overrides
    args,          \* the arguments given to __init__
    constructed,   \* __init__ returned an instance
    frequency,     \* self.frequency
    date,          \* self.date
    tomorrow,      \* self.tomorrow
    one_week,      \* self.one_week
    one_month,     \* self.one_month
    view,          \* self.view
    send,          \* self.send
    file,          \* self.file: [kind, name, closed, buf]
    recipients,    \* self.recipients
    stdout,        \* sys.stdout: [closed, out]
    disk,          \* the file system: path -> [exists, content]
    written,       \* what the csv writer was given to write, in order
    writes,        \* number of writerows calls on the output target
    data,          \* the local `data` of send_results
    text_content,  \* the local `text_content` of send_results
    html_content,  \* the local `html_content` of send_results
    msg,           \* the EmailMultiAlternatives message
    sent,          \* msg.send() returned
    calls          \* number of invocations of each hook

vars == <<pc, err, overridden, args, constructed, frequency, date, tomorrow,
          one_week, one_month, view, send, file, recipients, stdout, disk,
          written, writes, data, text_content, html_content, msg, sent, calls>>

-----------------------------------------------------------------------------
(* Bounds of the model *)

\* largest number of data rows (rows after the header) get_data returns
MaxRows == 1

-----------------------------------------------------------------------------
(* Sequences and text *)

CR == "\r"
LF == "\n"

None == [some |-> FALSE, val |-> <<>>]
Some(v) == [some |-> TRUE, val |-> v]

\* Python truthiness of an optional sequence: None and the empty one are false
Truthy(x) == x.some /\ x.val # <<>>

\* c * n
Repeat(c, n) == [i \in 1..n |-> c]

RECURSIVE Concat(_)
\* "".join(parts)
Concat(parts) ==
    IF parts = <<>> THEN <<>> ELSE Head(parts) \o Concat(Tail(parts))

RECURSIVE Join(_, _)
\* sep.join(parts)
Join(sep, parts) ==
    IF parts = <<>> THEN <<>>
    ELSE IF Len(parts) = 1 THEN parts[1]
    ELSE parts[1] \o <<sep>> \o Join(sep, Tail(parts))

MaxOf(S) == CHOOSE m \in S : \A x \in S : x <= m

DigitChar(d) == <<"0", "1", "2", "3", "4", "5", "6", "7", "8", "9">>[d + 1]

RECURSIVE Digits(_)
\* decimal digits of a non-negative integer
Digits(n) ==
    IF n < 10 THEN <<DigitChar(n)>>
    ELSE Digits(n \div 10) \o <<DigitChar(n % 10)>>

\* A cell of a table is an integer or a string
IntCell(n) == [kind |-> "int", n |-> n, s |-> <<>>]
StrCell(s) == [kind |-> "str", n |-> 0, s |-> s]

\* str(value)
Str(cell) == IF cell.kind = "int" THEN Digits(cell.n) ELSE cell.s

-----------------------------------------------------------------------------
(* Calendar dates: datetime.date and the addition of a timedelta of days *)

IsLeap(y) == y % 4 = 0 /\ (y % 100 # 0 \/ y % 400 = 0)

DaysInMonth(y, m) ==
    IF m = 2 /\ IsLeap(y) THEN 29
    ELSE <<31, 28, 31, 30, 31, 30, 31, 31, 30, 31, 30, 31>>[m]

RECURSIVE DaysBeforeMonth(_, _)
\* days of year y that precede the first day of month m
DaysBeforeMonth(y, m) ==
    IF m = 1 THEN 0 ELSE DaysBeforeMonth(y, m - 1) + DaysInMonth(y, m - 1)

\* days before January 1st of year y
DaysBeforeYear(y) ==
    LET p == y - 1 IN p * 365 + (p \div 4) - (p \div 100) + (p \div 400)

\* date.toordinal(): January 1st of year 1 is day 1
ToOrdinal(d) == DaysBeforeYear(d[1]) + DaysBeforeMonth(d[1], d[2]) + d[3]

\* date.fromordinal(n)
FromOrdinal(n) ==
    LET n0   == n - 1
        n400 == n0 \div 146097
        r400 == n0 % 146097
        n100 == r400 \div 36524
        r100 == r400 % 36524
        n4   == r100 \div 1461
        r4   == r100 % 1461
        n1   == r4 \div 365
        r1   == r4 % 365
        year == n400 * 400 + 1 + n100 * 100 + n4 * 4 + n1
        est  == (r1 + 50) \div 32
        month == IF DaysBeforeMonth(year, est) > r1 THEN est - 1 ELSE est
    IN  IF n1 = 4 \/ n100 = 4 THEN <<year - 1, 12, 31>>
        ELSE <<year, month, r1 - DaysBeforeMonth(year, month) + 1>>

\* d + datetime.timedelta(days=n)
PlusDays(d, n) == FromOrdinal(ToOrdinal(d) + n)

NoDate == <<0, 0, 0>>

\* datetime.date.today() at the time of the call
Today == <<2024, 3, 1>>

\* the dates a caller supplies
SuppliedDates == {<<2023, 12, 31>>}

\* the `date` argument: None, a datetime.date, or a datetime.datetime (a
\* subclass of datetime.date) of that day
DateArgs ==
    {[kind |-> "none", d |-> NoDate]}
      \cup {[kind |-> k, d |-> d] : k \in {"date", "datetime"}, d \in SuppliedDates}

-----------------------------------------------------------------------------
(* Tables: what get_data returns *)

\* the header row of the report
HeaderRow == <<StrCell(<<"i", "d">>), StrCell(<<"a", ",", "b">>)>>

DataCells == {IntCell(7), IntCell(300)}

\* a data row has the header's length, or is too short
DataRows == UNION {[1..c -> DataCells] : c \in 1..Len(HeaderRow)}

NoTable == <<>>

\* the table without any row, and a header row followed by at most MaxRows
\* data rows
Tables ==
    {NoTable} \cup
    {<<HeaderRow>> \o rows : rows \in UNION {[1..r -> DataRows] : r \in 0..MaxRows}}

\* every row has the length of the header row
Rectangular(table) ==
    table # <<>> /\ \A r \in 1..Len(table) : Len(table[r]) = Len(table[1])

-----------------------------------------------------------------------------
(* csv.writer(f).writerows(rows), with the default (excel) dialect *)

QUOTE == "\""

RECURSIVE DoubleQuotes(_)
DoubleQuotes(s) ==
    IF s = <<>> THEN <<>>
    ELSE (IF Head(s) = QUOTE THEN <<QUOTE, QUOTE>> ELSE <<Head(s)>>)
           \o DoubleQuotes(Tail(s))

CsvField(cell, alone) ==
    LET s == Str(cell)
        special == \E i \in 1..Len(s) : s[i] \in {",", QUOTE, CR, LF}
    IN  IF special \/ (alone /\ s = <<>>)
        THEN <<QUOTE>> \o DoubleQuotes(s) \o <<QUOTE>>
        ELSE s

CsvRow(row) ==
    Join(",", [i \in 1..Len(row) |-> CsvField(row[i], Len(row) = 1)]) \o <<CR, LF>>

CsvRows(rows) == Concat([r \in 1..Len(rows) |-> CsvRow(rows[r])])

-----------------------------------------------------------------------------
(* The plain-text body built by send_results *)

\* column_max_lens
ColumnMaxLens(table) ==
    [i \in 1..Len(table[1]) |->
        MaxOf({Len(Str(table[r][i])) : r \in 1..Len(table)})]

\* the line terminator the code appends to every line
LineEnd == <<LF, CR>>

BorderLine(lens) ==
    <<"+">> \o Join("+", [i \in 1..Len(lens) |-> Repeat("-", lens[i])])
            \o <<"+">> \o LineEnd

RowLine(row, lens) ==
    <<"|">> \o Join("|", [i \in 1..Len(row) |->
                            Str(row[i]) \o Repeat(" ", lens[i] - Len(Str(row[i])))])
            \o <<"|">> \o LineEnd

TextContent(table) ==
    LET lens == ColumnMaxLens(table)
    IN  BorderLine(lens) \o RowLine(table[1], lens) \o BorderLine(lens)
          \o Concat([k \in 1..(Len(table) - 1) |-> RowLine(table[k + 1], lens)])
          \o BorderLine(lens)

\* the context handed to the template; rendering belongs to the template engine
HtmlContext(report_name, table) ==
    [report_name |-> report_name, column_headers |-> table[1],
     data |-> Tail(table), column_count |-> Len(table[1])]

-----------------------------------------------------------------------------
(* The report subclass and the environment *)

Hooks == {"get_data", "get_default_recipients", "get_email_subject"}

\* the class attributes `name` and `frequencies` of the report subclass
Name == "sales"
frequencies == {"daily", "weekly"}

\* the values a caller passes as `frequency`
FrequencyArgs == frequencies \cup {"monthly"}

\* os.path.expanduser('~')
Home == <<"/", "h">>

\* the values a caller passes as `filename`
FilenameArgs == {None, Some(<<>>), Some(<<"f">>), Some(<<"~", "/", "f">>)}

\* the values a caller passes as `recipients`
RecipientArgs == {None, Some(<<>>), Some(<<"a@example.com">>)}

\* what an overriding get_default_recipients / get_email_subject returns
DefaultRecipients == <<"staff@example.com">>
Subject == "Sales report"

REPORTER_FROM_EMAIL == "reports@example.com"

\* the name of the file NamedTemporaryFile creates
TmpName == <<"/", "t", "m", "p", "/", "x">>

RECURSIVE ReplaceTilde(_)
\* filename.replace('~', os.path.expanduser('~'))
ReplaceTilde(s) ==
    IF s = <<>> THEN <<>>
    ELSE (IF Head(s) = "~" THEN Home ELSE <<Head(s)>>) \o ReplaceTilde(Tail(s))

Paths == {TmpName} \cup {ReplaceTilde(f.val) : f \in {a \in FilenameArgs : Truthy(a)}}

Absent == [exists |-> FALSE, content |-> <<>>]
Empty == [exists |-> TRUE, content |-> <<>>]

NoFile == [kind |-> "none", name |-> <<>>, closed |-> FALSE, buf |-> <<>>]
NoHtml == [report_name |-> "", column_headers |-> <<>>, data |-> <<>>,
           column_count |-> 0]
NoMsg == [composed |-> FALSE, subject |-> "", body |-> <<>>, from_email |-> "",
          to |-> <<>>, attachment_name |-> <<"", NoDate>>,
          attachment |-> <<>>, alternative |-> NoHtml]
NoArgs == [frequency |-> "", date |-> [kind |-> "none", d |-> NoDate],
           view |-> FALSE, filename |-> None, recipients |-> None]

-----------------------------------------------------------------------------
(* Initial state: the subclass is defined, no report is constructed yet *)

Init ==
    /\ pc = "init"
    /\ err = "none"
    /\ overridden \in SUBSET Hooks
    /\ args = NoArgs
    /\ constructed = FALSE
    /\ frequency = ""
    /\ date = NoDate
    /\ tomorrow = NoDate
    /\ one_week = NoDate
    /\ one_month = NoDate
    /\ view = FALSE
    /\ send = FALSE
    /\ file = NoFile
    /\ recipients = None
    /\ stdout = [closed |-> FALSE, out |-> <<>>]
    /\ disk = [p \in Paths |-> Absent]
    /\ written = <<>>
    /\ writes = 0
    /\ data = NoTable
    /\ text_content = <<>>
    /\ html_content = NoHtml
    /\ msg = NoMsg
    /\ sent = FALSE
    /\ calls = [h \in Hooks |-> 0]

\* the failing exit of a step: the exception propagates to the caller
Raise(e) == pc' = "failed" /\ err' = e

-----------------------------------------------------------------------------
(* BaseReport.__init__ *)

\* a constructor without the membership test
FrequencyAvailable_Any(f) == TRUE

\* `frequency in self.frequencies`
FrequencyAvailable(f) == f \in frequencies

\* set_dates: `type(date) is datetime.date`
IsPlainDate(d) == d.kind = "date"

\* a constructor that looks at the view flag only
SendEnabled_ViewOnly(v, filename) == ~v

\* self.send after `if filename or view: self.send = False`
SendEnabled(v, filename) == ~(Truthy(filename) \/ v)

\* self.recipients after `if recipients: self.recipients = recipients`
InitRecipients(r) == IF Truthy(r) THEN r ELSE None

Construct ==
    /\ pc = "init"
    /\ \E f \in FrequencyArgs, d \in DateArgs, v \in BOOLEAN,
          fn \in FilenameArgs, r \in RecipientArgs, open_ok \in BOOLEAN :
         LET D == IF IsPlainDate(d) THEN d.d ELSE Today
             path == ReplaceTilde(fn.val)
         IN
         /\ args' = [frequency |-> f, date |-> d, view |-> v, filename |-> fn,
                     recipients |-> r]
         /\ IF ~FrequencyAvailable(f)
            THEN /\ Raise("NotAvailable")
                 /\ UNCHANGED <<constructed, frequency, date, tomorrow, one_week,
                                one_month, view, send, file, recipients, disk>>
            ELSE /\ frequency' = f
                 /\ date' = D
                 /\ tomorrow' = PlusDays(D, 1)
                 /\ one_week' = PlusDays(D, 0 - 7)
                 /\ one_month' = PlusDays(D, 0 - 32)
                 /\ view' = v
                 /\ send' = SendEnabled(v, fn)
                 /\ IF v
                    THEN \* get_file returns sys.stdout
                         /\ file' = [NoFile EXCEPT !.kind = "stdout"]
                         /\ UNCHANGED disk
                    ELSE IF ~Truthy(fn)
                    THEN \* NamedTemporaryFile(delete=False)
                         /\ file' = [NoFile EXCEPT !.kind = "temp", !.name = TmpName]
                         /\ disk' = [disk EXCEPT ![TmpName] = Empty]
                    ELSE IF open_ok
                    THEN \* open(filename, 'w')
                         /\ file' = [NoFile EXCEPT !.kind = "named", !.name = path]
                         /\ disk' = [disk EXCEPT ![path] = Empty]
                    ELSE UNCHANGED <<file, disk>>
                 /\ IF ~v /\ Truthy(fn) /\ ~open_ok
                    THEN /\ Raise("IOError")
                         /\ UNCHANGED <<constructed, recipients>>
                    ELSE /\ recipients' = InitRecipients(r)
                         /\ constructed' = TRUE
                         /\ pc' = "ready"
                         /\ UNCHANGED err
    /\ UNCHANGED <<overridden, stdout, written, writes, data, text_content,
                   html_content, msg, sent, calls>>

-----------------------------------------------------------------------------
(* BaseReport.run_report *)

Called(h) == calls' = [calls EXCEPT ![h] = @ + 1]

\* w = csv.writer(self.file); w.writerows(self.get_data())
RunWrite ==
    /\ pc = "ready"
    /\ Called("get_data")
    /\ IF "get_data" \notin overridden
       THEN /\ Raise("NotImplementedError")
            /\ UNCHANGED <<file, stdout, written, writes>>
       ELSE \E t \in Tables :
              /\ IF file.kind = "stdout"
                 THEN /\ stdout' = [stdout EXCEPT !.out = @ \o CsvRows(t)]
                      /\ UNCHANGED file
                 ELSE /\ file' = [file EXCEPT !.buf = @ \o CsvRows(t)]
                      /\ UNCHANGED stdout
              /\ written' = written \o CsvRows(t)
              /\ writes' = writes + 1
              /\ pc' = "close"
              /\ UNCHANGED err
    /\ UNCHANGED <<overridden, args, constructed, frequency, date, tomorrow,
                   one_week, one_month, view, send, recipients, disk, data,
                   text_content, html_content, msg, sent>>

\* a run_report that goes on without closing the output target
RunClose_LeavesOpen ==
    /\ pc = "close"
    /\ pc' = (IF send THEN "recipients" ELSE "done")
    /\ UNCHANGED <<err, overridden, args, constructed, frequency, date, tomorrow,
                   one_week, one_month, view, send, file, recipients, stdout, disk,
                   written, writes, data, text_content, html_content, msg, sent,
                   calls>>

\* the position after self.file.close(): `if self.send: self.send_results()`
AfterClose == IF send THEN "recipients" ELSE "done"

\* self.file.close(): buffered output reaches the file
RunClose ==
    /\ pc = "close"
    /\ IF file.kind = "stdout"
       THEN /\ stdout' = [stdout EXCEPT !.closed = TRUE]
            /\ UNCHANGED <<file, disk>>
       ELSE /\ disk' = [disk EXCEPT ![file.name].content = @ \o file.buf]
            /\ file' = [file EXCEPT !.closed = TRUE, !.buf = <<>>]
            /\ UNCHANGED stdout
    /\ pc' = AfterClose
    /\ UNCHANGED <<err, overridden, args, constructed, frequency, date, tomorrow,
                   one_week, one_month, view, send, recipients, written, writes,
                   data, text_content, html_content, msg, sent, calls>>

-----------------------------------------------------------------------------
(* BaseReport.send_results *)

\* a send_results that always asks for the default recipients
NeedsDefaultRecipients_Always(r) == TRUE

\* `if not self.recipients`
NeedsDefaultRecipients(r) == ~Truthy(r)

\* self.get_default_recipients(): the base method takes a `recipients`
\* parameter the call does not pass, so the call of the base method fails
\* before its body runs
SendRecipients ==
    /\ pc = "recipients"
    /\ IF NeedsDefaultRecipients(recipients)
       THEN /\ Called("get_default_recipients")
            /\ IF "get_default_recipients" \in overridden
               THEN /\ recipients' = Some(DefaultRecipients)
                    /\ pc' = "template"
                    /\ UNCHANGED err
               ELSE /\ Raise("TypeError")
                    /\ UNCHANGED recipients
       ELSE /\ pc' = "template"
            /\ UNCHANGED <<err, recipients, calls>>
    /\ UNCHANGED <<overridden, args, constructed, frequency, date, tomorrow,
                   one_week, one_month, view, send, file, stdout, disk, written,
                   writes, data, text_content, html_content, msg, sent>>

\* html = loader.get_template('reporter/report.html')
SendTemplate ==
    /\ pc = "template"
    /\ \/ pc' = "get_data" /\ UNCHANGED err
       \/ Raise("TemplateDoesNotExist")
    /\ UNCHANGED <<overridden, args, constructed, frequency, date, tomorrow,
                   one_week, one_month, view, send, file, recipients, stdout, disk,
                   written, writes, data, text_content, html_content, msg, sent,
                   calls>>

\* data = self.get_data()
SendGetData ==
    /\ pc = "get_data"
    /\ Called("get_data")
    /\ IF "get_data" \notin overridden
       THEN Raise("NotImplementedError") /\ UNCHANGED data
       ELSE \E t \in Tables : data' = t /\ pc' = "subject" /\ UNCHANGED err
    /\ UNCHANGED <<overridden, args, constructed, frequency, date, tomorrow,
                   one_week, one_month, view, send, file, recipients, stdout, disk,
                   written, writes, text_content, html_content, msg, sent>>

\* subject = self.get_email_subject(); report_name = self.get_email_subject()
SendSubject ==
    /\ pc = "subject"
    /\ IF "get_email_subject" \notin overridden
       THEN Called("get_email_subject") /\ Raise("NotImplementedError")
       ELSE /\ calls' = [calls EXCEPT !["get_email_subject"] = @ + 2]
            /\ pc' = "render"
            /\ UNCHANGED err
    /\ UNCHANGED <<overridden, args, constructed, frequency, date, tomorrow,
                   one_week, one_month, view, send, file, recipients, stdout, disk,
                   written, writes, data, text_content, html_content, msg, sent>>

\* column_headers = data[0]; html_content = html.render(Context(d));
\* text_content = ...: indexing fails on a table without rows, on a row
\* shorter than the header (column_max_lens) and on a longer one (its line)
SendRender ==
    /\ pc = "render"
    /\ IF Rectangular(data)
       THEN /\ html_content' = HtmlContext(Subject, data)
            /\ text_content' = TextContent(data)
            /\ pc' = "compose"
            /\ UNCHANGED err
       ELSE /\ Raise("IndexError")
            /\ UNCHANGED <<html_content, text_content>>
    /\ UNCHANGED << overridden, args, constructed, frequency, date, tomorrow,
                   one_week, one_month, view, send, file, recipients, stdout, disk,
                   written, writes, data, msg, sent, calls>>

\* msg = EmailMultiAlternatives(...); msg.attach_alternative(html_content, ...)
SendCompose ==
    /\ pc = "compose"
    /\ IF disk[file.name].exists
       THEN /\ msg' = [composed |-> TRUE, subject |-> Subject,
                       body |-> text_content,
                       from_email |-> REPORTER_FROM_EMAIL,
                       to |-> recipients.val,
                       attachment_name |-> <<Name, date>>,
                       attachment |-> disk[file.name].content,
                       alternative |-> html_content]
            /\ pc' = "dispatch"
            /\ UNCHANGED err
       ELSE Raise("IOError") /\ UNCHANGED msg
    /\ UNCHANGED <<overridden, args, constructed, frequency, date, tomorrow,
                   one_week, one_month, view, send, file, recipients, stdout, disk,
                   written, writes, data, text_content, html_content, sent, calls>>

\* a send step that removes the output file when the transport raises
SendDispatch_RemovesOnFailure ==
    /\ pc = "dispatch"
    /\ \/ sent' = TRUE /\ pc' = "remove" /\ UNCHANGED <<err, disk>>
       \/ /\ Raise("SMTPException")
          /\ disk' = [disk EXCEPT ![file.name] = Absent]
          /\ UNCHANGED sent
    /\ UNCHANGED <<overridden, args, constructed, frequency, date, tomorrow,
                   one_week, one_month, view, send, file, recipients, stdout,
                   written, writes, data, text_content, html_content, msg, calls>>

\* msg.send(): the transport delivers, or raises
SendDispatch ==
    /\ pc = "dispatch"
    /\ \/ sent' = TRUE /\ pc' = "remove" /\ UNCHANGED err
       \/ Raise("SMTPException") /\ UNCHANGED sent
    /\ UNCHANGED <<overridden, args, constructed, frequency, date, tomorrow,
                   one_week, one_month, view, send, file, recipients, stdout, disk,
                   written, writes, data, text_content, html_content, msg, calls>>

\* os.remove(self.file.name)
SendRemove ==
    /\ pc = "remove"
    /\ disk' = [disk EXCEPT ![file.name] = Absent]
    /\ pc' = "done"
    /\ UNCHANGED <<err, overridden, args, constructed, frequency, date, tomorrow,
                   one_week, one_month, view, send, file, recipients, stdout,
                   written, writes, data, text_content, html_content, msg, sent,
                   calls>>

-----------------------------------------------------------------------------

Next ==
    \/ Construct
    \/ RunWrite
    \/ RunClose
    \/ SendRecipients
    \/ SendTemplate
    \/ SendGetData
    \/ SendSubject
    \/ SendRender
    \/ SendCompose
    \/ SendDispatch
    \/ SendRemove

Spec == Init /\ [][Next]_vars

-----------------------------------------------------------------------------
(* Properties *)

SendPositions == {"recipients", "template", "get_data", "subject", "render",
                  "compose", "dispatch", "remove"}

\* the output target has been closed
TargetClosed == IF file.kind = "stdout" THEN stdout.closed ELSE file.closed

\* a filename was given: the argument is a non-empty string
FilenameGiven == args.filename.some /\ args.filename.val # <<>>

\* a non-empty recipients sequence was given
RecipientsGiven == args.recipients.some /\ args.recipients.val # <<>>

\* C1: the constructor raises NotAvailable, and returns no instance, exactly
\* when the frequency is outside the subclass's `frequencies`; for a
\* frequency in the set it returns an instance holding that frequency, unless
\* opening the named output file fails.
C1_FrequencyChecked ==
    pc # "init" =>
      /\ args.frequency \notin frequencies =>
           ~constructed /\ pc = "failed" /\ err = "NotAvailable" /\ frequency = ""
      /\ args.frequency \in frequencies =>
           /\ err # "NotAvailable"
           /\ constructed \/ (err = "IOError" /\ FilenameGiven /\ ~args.view)
           /\ frequency = args.frequency

C1_Witness ==
    pc = "failed" /\ err = "NotAvailable" /\ args.frequency = "monthly"

\* C2: self.send is false exactly when the view flag is set or a filename was
\* given; in such a run get_default_recipients is never called, no message is
\* composed or sent, send_results is never entered, and a named output file
\* stays on disk.
C2_SendSuppressed ==
    constructed =>
      /\ send = ~(args.view \/ FilenameGiven)
      /\ (args.view \/ FilenameGiven) =>
           /\ calls["get_default_recipients"] = 0
           /\ ~msg.composed
           /\ ~sent
           /\ pc \notin SendPositions
           /\ file.kind # "temp"
           /\ file.kind = "named" => disk[file.name].exists

C2_Witness ==
    /\ pc = "done"
    /\ FilenameGiven /\ ~args.view
    /\ file.kind = "named" /\ disk[file.name].exists
    /\ disk[file.name].content = written /\ written # <<>>

\* C3: with the view flag set the output target is standard output, and
\* standard output is never closed: it is still open after run_report.
C3_StdoutStaysOpen ==
    (constructed /\ args.view) => file.kind = "stdout" /\ ~stdout.closed

\* C4: without a filename and without the view flag the output target is a
\* temporary file that exists from construction on; it is gone only once
\* msg.send() has returned (the message holding the file's contents), and it
\* is still in place whenever a step has failed.
C4_TempRemovedOnlyAfterSend ==
    (constructed /\ ~args.view /\ ~FilenameGiven) =>
      /\ file.kind = "temp" /\ file.name = TmpName
      /\ ~disk[TmpName].exists =>
           sent /\ msg.composed /\ msg.attachment = written /\ pc = "done"
      /\ pc = "failed" => disk[TmpName].exists
      /\ pc = "done" => sent /\ ~disk[TmpName].exists

C4_Witness ==
    /\ pc = "done" /\ file.kind = "temp"
    /\ sent /\ ~disk[TmpName].exists /\ msg.attachment # <<>>

\* C5: a hook the subclass does not override fails with NotImplementedError,
\* and with no other error, when the code path that invokes it is taken.
C5_AbstractHookError ==
    \A h \in Hooks :
      (h \notin overridden /\ calls[h] > 0) =>
        pc = "failed" /\ err = "NotImplementedError"

\* C6 (as stated): whenever a recipients value is supplied, the empty
\* sequence included, get_default_recipients is never invoked and the message
\* goes to exactly the supplied recipients.
C6_AnySuppliedRecipients ==
    /\ args.recipients.some =>
         /\ calls["get_default_recipients"] = 0
         /\ msg.composed => msg.to = args.recipients.val
    /\ calls["get_default_recipients"] > 0 => ~args.recipients.some

\* C6 (amended): when a non-empty recipients sequence is supplied,
\* get_default_recipients is never invoked and the message goes to exactly the
\* supplied recipients; get_default_recipients is invoked, once and by
\* send_results, when no recipients or an empty sequence were supplied.
C6_NonEmptyRecipients ==
    /\ RecipientsGiven =>
         /\ calls["get_default_recipients"] = 0
         /\ constructed => recipients = args.recipients
         /\ msg.composed => msg.to = args.recipients.val
    /\ calls["get_default_recipients"] > 0 => ~RecipientsGiven
    /\ (~RecipientsGiven /\ pc \in SendPositions \ {"recipients"}) =>
         calls["get_default_recipients"] = 1

C6_Witness ==
    /\ msg.composed /\ RecipientsGiven
    /\ msg.to = <<"a@example.com">>
    /\ calls["get_default_recipients"] = 0

\* the calendar day after d
NextDay(d) ==
    IF d[3] < DaysInMonth(d[1], d[2]) THEN <<d[1], d[2], d[3] + 1>>
    ELSE IF d[2] < 12 THEN <<d[1], d[2] + 1, 1>>
    ELSE <<d[1] + 1, 1, 1>>

RECURSIVE DaysLater(_, _)
\* the calendar day n days after d
DaysLater(d, n) == IF n = 0 THEN d ELSE DaysLater(NextDay(d), n - 1)

\* the stored window is the one of self.date
WindowOfDate ==
    constructed =>
      /\ tomorrow = DaysLater(date, 1)
      /\ DaysLater(one_week, 7) = date
      /\ DaysLater(one_month, 32) = date

\* C7: a supplied reference date D is stored (today is used only when no date
\* is supplied), with tomorrow = D + 1 day, one_week = D - 7 days and
\* one_month = D - 32 days, in every state from construction on.
C7_DateWindow ==
    constructed =>
      /\ date = (IF args.date.kind = "none" THEN Today ELSE args.date.d)
      /\ WindowOfDate

\* the width of column i: the greatest length of the string of a value in it
RefWidth(table, i) ==
    CHOOSE n \in {Len(Str(table[r][i])) : r \in 1..Len(table)} :
      \A r \in 1..Len(table) : Len(Str(table[r][i])) <= n

RefBorder(table) ==
    <<"+">> \o Concat([i \in 1..Len(table[1]) |->
                         Repeat("-", RefWidth(table, i)) \o <<"+">>])

RefRow(table, r) ==
    <<"|">> \o Concat([i \in 1..Len(table[r]) |->
                         LET cell == Str(table[r][i])
                         IN  cell \o Repeat(" ", RefWidth(table, i) - Len(cell))
                                  \o <<"|">>])

\* border, header, border, the data rows, border, each followed by eol
RefText(table, eol) ==
    Concat(<<RefBorder(table), eol, RefRow(table, 1), eol, RefBorder(table), eol>>)
      \o Concat([k \in 1..(Len(table) - 1) |-> RefRow(table, k + 1) \o eol])
      \o RefBorder(table) \o eol

Rendered == pc \in {"compose", "dispatch", "remove", "done"} /\ send

\* the layout of the body, with the line terminator the code writes
TextLayout ==
    Rendered => text_content = RefText(data, <<LF, CR>>)

\* C8: for a table whose rows all have the header's length the plain-text
\* body is the reference rendering: column widths are the greatest string
\* lengths, cells are padded to them between `|`, border lines of `+` and `-`
\* frame the header and the data rows, and every line ends with CR then LF.
C8_TextIsReference ==
    (Rendered /\ Rectangular(data)) => text_content = RefText(data, <<CR, LF>>)

\* C9: the output target is written once, after get_data and before it is
\* closed; send_results is entered only with sending enabled and only after
\* the close; the attachment is what was read back after the close and equals
\* the bytes written; a run without sending ends after the close.
C9_WriteCloseThenSend ==
    /\ writes <= 1
    /\ writes = 1 => calls["get_data"] >= 1
    /\ TargetClosed => writes = 1
    /\ pc \in SendPositions => send /\ TargetClosed
    /\ msg.composed => TargetClosed /\ msg.attachment = written
    /\ pc = "done" => writes = 1 /\ TargetClosed /\ (send <=> sent)
    /\ (pc = "done" /\ ~send) => ~msg.composed /\ calls["get_data"] = 1

C9_Witness ==
    /\ pc = "done" /\ sent
    /\ msg.attachment = written /\ written # <<>>

\* C10: get_data is called twice in a sending run and once in a run without
\* sending, and the table of the e-mail's bodies is the table that was
\* serialized to the attached CSV.
C10_RecomputationEquivalent ==
    /\ sent => calls["get_data"] = 2
    /\ (pc = "done" /\ ~send) => calls["get_data"] = 1
    /\ msg.composed =>
         /\ msg.attachment = CsvRows(data)
         /\ msg.alternative = HtmlContext(Subject, data)

=============================================================================
